---- MODULE Spec2Model ----
(***************************************************************************)
(* Layout presets for the VS Code workbench (src/src/extension.ts).        *)
(*                                                                         *)
(* The extension registers four commands (savePreset, listPresets,         *)
(* applyPreset, deletePreset).  Each handler is an async function: it runs *)
(* synchronously up to an await, is suspended there, and is resumed later. *)
(* One action of this module is one such synchronous segment of a handler. *)
(*                                                                         *)
(* The host (VS Code) is outside the repository.  What the module assumes  *)
(* about it is stated where it is used:                                    *)
(*   - globalState.get/update read and replace one value under STORAGE_KEY;*)
(*   - the workbench commands do what their names say to the live          *)
(*     workbench (see executeCommand);                                     *)
(*   - the sidebar position is the setting workbench.sideBar.location;     *)
(*   - the panel-location settings are settings of the user: the live      *)
(*     panel position need not agree with them.                            *)
(***************************************************************************)
EXTENDS Integers, Sequences, FiniteSets, TLC

(* ------------------------------ bounds --------------------------------- *)
\* Invocations that may be in flight at once under SpecOverlap.
NumProcs == 2
\* Longest preset list the model lets the store reach.
MaxPresets == 3
\* Date.now() ranges over 0..MaxClock.
MaxClock == 1

Procs == 1..NumProcs
\* Names a user types into the input box.
Names == {"A", "B"}

(* ------------------------------ values --------------------------------- *)
\* JavaScript's undefined: an absent setting, a dismissed prompt.  It is a
\* marker different from every string the model lets a user or a setting hold.
Undefined == "<undefined>"

SidebarPositions == {"left", "right"}
PanelPositions == {"bottom", "left", "right"}

\* interface LayoutPreset, without the sizePx fields no code path sets.
Regions(positions) == [position : positions, visible : BOOLEAN]
Layouts == [sidebar : Regions(SidebarPositions), panel : Regions(PanelPositions)]
LayoutPreset(n, t, l) ==
  [name |-> n, timestamp |-> t, sidebar |-> l.sidebar, panel |-> l.panel]
LayoutOf(p) == [sidebar |-> p.sidebar, panel |-> p.panel]

\* The value globalState holds under STORAGE_KEY: absent, or an array.
NoValue == [present |-> FALSE, value |-> <<>>]
Stored(l) == [present |-> TRUE, value |-> l]

\* Notifications (showInformationMessage), as <<text>> or <<text, argument>>.
NoMessage == <<>>
MsgCancelled == <<"Preset save cancelled.">>
MsgNone == <<"No layout presets saved.">>
MsgSaved(n) == <<"Saved layout preset", n>>
MsgPreset(n) == <<"Preset:", n>>
MsgApplied(n) == <<"Applied layout preset", n>>
MsgDeleted(n) == <<"Deleted preset", n>>

\* Workbench commands.
ToggleSidebarPosition == "workbench.action.toggleSidebarPosition"
ToggleSidebarVisibility == "workbench.action.toggleSidebarVisibility"
PositionPanelBottom == "workbench.action.positionPanelBottom"
PositionPanelRight == "workbench.action.positionPanelRight"
PositionPanelLeft == "workbench.action.positionPanelLeft"
TogglePanel == "workbench.action.togglePanel"
PanelMoves == {PositionPanelBottom, PositionPanelRight, PositionPanelLeft}
PanelCommands == PanelMoves \cup {TogglePanel}

(* ------------------------------ state ---------------------------------- *)
VARIABLES
  store,                 \* globalState's value under STORAGE_KEY
  sideBarLocation,       \* setting workbench.sideBar.location
  panelDefaultLocation,  \* setting workbench.panel.defaultLocation
  panelLocation,         \* setting workbench.panel.location
  ui,                    \* the live workbench: a Layout
  clock,                 \* the last value Date.now() returned
  written,               \* whether the last step called globalState.update
  inv                    \* the invocation slots: one handler activation each

host == <<sideBarLocation, panelDefaultLocation, panelLocation, ui>>
vars == <<store, written, host, clock, inv>>

\* An invocation slot before its first command.  Its fields are the handler's
\* locals (name, preset, list, items, pick), its position (op, pc, stage) and
\* what the activation has done so far (cmds, msg, before).
Idle ==
  [ op     |-> "none",     \* the command the slot runs, or ran last
    pc     |-> "idle",     \* the await the handler is suspended at
    name   |-> Undefined,  \* const name (savePreset)
    preset |-> <<>>,       \* const preset (savePreset): <<>> or <<p>>
    list   |-> <<>>,       \* const list
    items  |-> <<>>,       \* const items: what showQuickPick was called with
    pick   |-> <<>>,       \* const pick: <<>> before the picker resolves, then <<item>>
    stage  |-> 1,          \* applyPreset: the next field to compare, 1..5
    before |-> <<>>,       \* applyPreset: <<what it was called on>>
    cmds   |-> <<>>,       \* the commands passed to executeCommand, in order
    msg    |-> NoMessage ] \* the last notification shown

\* A handler returned: its frame is gone.  What stays is what the user saw of
\* it: the answers given to its prompts and the notification it showed.
Returned(self, m) ==
  [Idle EXCEPT !.op = self.op, !.name = self.name, !.pick = self.pick, !.msg = m]

(* --------------------------- pure helpers ------------------------------ *)
\* Mutant of Truthy: only undefined is falsy (name === undefined).
TruthyOnlyUndefined(v) == v # Undefined

\* JavaScript truthiness of a string-or-undefined value (!name, a || b).
Truthy(v) == v # Undefined /\ v # ""

\* getPresets: raw ? raw : []  (an array is always truthy)
getPresets(raw) == IF raw.present THEN raw.value ELSE <<>>

\* getConfig: val === undefined ? fallback : val
getConfig(val, fallback) == IF val = Undefined THEN fallback ELSE val

\* Mutant of PanelPositionOf: workbench.panel.location is preferred.
PanelPositionOfLocationFirst(defaultLocation, location) ==
  LET pos == IF Truthy(location) THEN location ELSE defaultLocation
  IN  IF pos = "left" \/ pos = "right"
      THEN (IF pos = "left" THEN "left" ELSE "right")
      ELSE "bottom"

\* getPanelPosition on the two settings' values.
PanelPositionOf(defaultLocation, location) ==
  LET pos == IF Truthy(defaultLocation) THEN defaultLocation ELSE location
  IN  IF pos = "left" \/ pos = "right"
      THEN (IF pos = "left" THEN "left" ELSE "right")
      ELSE "bottom"
getPanelPosition == PanelPositionOf(panelDefaultLocation, panelLocation)

\* Mutant of isSidebarVisible: the live sidebar's visibility is reported.
isSidebarVisibleLive == ui.sidebar.visible

isSidebarVisible == TRUE

\* Mutant of isPanelVisible: the panel counts as hidden.
isPanelVisibleNever == FALSE

\* Mutant of isPanelVisible: the live panel's visibility is reported.
isPanelVisibleLive == ui.panel.visible

isPanelVisible == TRUE

\* captureCurrentLayout(name), with Date.now() = now.
captureCurrentLayout(n, now) ==
  LET sidebarPosition == getConfig(sideBarLocation, "left")
      sidebarVisible == isSidebarVisible
      panelPosition == getPanelPosition
      panelVisible == isPanelVisible
  IN  [ name |-> n,
        timestamp |-> now,
        sidebar |-> [ position |-> IF sidebarPosition = "right" THEN "right" ELSE "left",
                      visible |-> sidebarVisible ],
        panel |-> [ position |-> panelPosition, visible |-> panelVisible ] ]

\* Mutant of Push: unshift, the new element first.
PushFront(l, x) == <<x>> \o l

\* Mutant of Push: an element whose name is already in the array replaces it.
PushUnique(l, x) ==
  IF \E i \in 1..Len(l) : l[i].name = x.name
  THEN [i \in 1..Len(l) |-> IF l[i].name = x.name THEN x ELSE l[i]]
  ELSE Append(l, x)

\* Mutant of Push: the elements already there take the new element's timestamp.
PushRestamped(l, x) ==
  Append([i \in 1..Len(l) |-> [l[i] EXCEPT !.timestamp = x.timestamp]], x)

\* Array.prototype.push
Push(l, x) == Append(l, x)

\* Mutant of Splice1: filter out every element named like the one at idx.
Splice1ByName(l, idx) ==
  IF idx < Len(l) THEN SelectSeq(l, LAMBDA x : x.name # l[idx + 1].name) ELSE l

\* Array.prototype.splice(idx, 1) on a 0-based index: the array afterwards.
Splice1(l, idx) ==
  [i \in 1..(Len(l) - (IF idx < Len(l) THEN 1 ELSE 0)) |->
     IF i <= idx THEN l[i] ELSE l[i + 1]]

\* new Date(timestamp).toLocaleString(): a rendering of the timestamp.
toLocaleString(t) == <<"date", t>>

\* The picker items each handler builds with list.map.
ListItems(l) ==
  [i \in 1..Len(l) |->
     [label |-> l[i].name, description |-> toLocaleString(l[i].timestamp)]]
ApplyItems(l) ==
  [i \in 1..Len(l) |->
     [label |-> l[i].name, description |-> toLocaleString(l[i].timestamp),
      preset |-> l[i]]]
DeleteItems(l) ==
  [i \in 1..Len(l) |->
     [label |-> l[i].name, description |-> toLocaleString(l[i].timestamp),
      idx |-> i - 1]]

\* What showQuickPick resolves to: one of the items, or undefined (dismissed).
NoPick == [undefined |-> TRUE]
Picks(items) == {NoPick} \cup {items[i] : i \in 1..Len(items)}

\* Mutant of IsEmpty: list.length === 1.
IsEmptyOffByOne(l) == Len(l) = 1

\* list.length === 0
IsEmpty(l) == Len(l) = 0

(* ------------------------------ savePreset ----------------------------- *)
\* A segment that makes no call to globalState.update.
NoUpdate == store' = store /\ written' = FALSE

\* globalState.update(STORAGE_KEY, l)
Update(l) == store' = Stored(l) /\ written' = TRUE

Active(p) == inv[p].pc # "idle"

\* Saves that have not yet pushed: each may still lengthen the list by one.
PendingSaves ==
  Cardinality({q \in Procs : inv[q].pc \in {"save:name", "save:capture"}})

\* The command is triggered: the handler runs to await showInputBox.
InvokeSave(p) ==
  /\ ~Active(p)
  /\ Len(getPresets(store)) + PendingSaves < MaxPresets
  /\ inv' = [inv EXCEPT ![p] = [Idle EXCEPT !.op = "savePreset", !.pc = "save:name"]]
  /\ NoUpdate /\ UNCHANGED <<host, clock>>

\* showInputBox resolves to input: !name returns, else captureCurrentLayout
\* runs (it has no await of its own) and the handler awaits its promise.
SaveName(p) ==
  /\ inv[p].pc = "save:name"
  /\ \E input \in Names \cup {"", Undefined} :
       IF ~Truthy(input)
       THEN /\ inv' = [inv EXCEPT ![p] = Returned([inv[p] EXCEPT !.name = input], MsgCancelled)]
            /\ UNCHANGED clock
       ELSE \E now \in clock..MaxClock :
            /\ clock' = now
            /\ inv' = [inv EXCEPT ![p].name = input, ![p].pc = "save:capture",
                                  ![p].preset = <<captureCurrentLayout(input, now)>>]
  /\ NoUpdate /\ UNCHANGED host

\* Mutant of SavePush: the preset is pushed onto the list the handler holds
\* since before its prompt, not onto one loaded in this segment.
SavePushOntoHeld(p) ==
  /\ inv[p].pc = "save:capture"
  /\ LET l == Push(inv[p].list, inv[p].preset[1])
     IN  /\ Update(l)
         /\ inv' = [inv EXCEPT ![p].list = l, ![p].pc = "save:update"]
  /\ UNCHANGED <<host, clock>>

\* getPresets, list.push, globalState.update: one segment, up to await update.
SavePush(p) ==
  /\ inv[p].pc = "save:capture"
  /\ LET l == Push(getPresets(store), inv[p].preset[1])
     IN  /\ Update(l)
         /\ inv' = [inv EXCEPT ![p].list = l, ![p].pc = "save:update"]
  /\ UNCHANGED <<host, clock>>

\* update resolved: the confirmation.
SaveDone(p) ==
  /\ inv[p].pc = "save:update"
  /\ inv' = [inv EXCEPT ![p] = Returned(inv[p], MsgSaved(inv[p].name))]
  /\ NoUpdate /\ UNCHANGED <<host, clock>>

(* ------------------------------ listPresets ---------------------------- *)
\* The command is triggered: getPresets, then either the notice that nothing
\* is saved, or the picker.  Apply and delete start the same way.
InvokeWithList(p, command, items) ==
  /\ ~Active(p)
  /\ LET l == getPresets(store)
     IN  inv' = [inv EXCEPT ![p] =
           IF IsEmpty(l)
           THEN [Idle EXCEPT !.op = command, !.msg = MsgNone]
           ELSE [Idle EXCEPT !.op = command, !.list = l, !.items = items,
                             !.pc = "pick"]]
  /\ NoUpdate /\ UNCHANGED <<host, clock>>

InvokeList(p) == InvokeWithList(p, "listPresets", ListItems(getPresets(store)))

\* Mutant of ListPick: the list it loaded is persisted again before it returns.
ListPickAndUpdate(p) ==
  /\ inv[p].op = "listPresets" /\ inv[p].pc = "pick"
  /\ \E choice \in Picks(inv[p].items) :
       inv' = [inv EXCEPT ![p] =
         Returned([inv[p] EXCEPT !.pick = <<choice>>],
                  IF choice = NoPick THEN NoMessage ELSE MsgPreset(choice.label))]
  /\ Update(inv[p].list) /\ UNCHANGED <<host, clock>>

\* showQuickPick resolves: !pick returns silently, else the preset's name.
ListPick(p) ==
  /\ inv[p].op = "listPresets" /\ inv[p].pc = "pick"
  /\ \E choice \in Picks(inv[p].items) :
       inv' = [inv EXCEPT ![p] =
         Returned([inv[p] EXCEPT !.pick = <<choice>>],
                  IF choice = NoPick THEN NoMessage ELSE MsgPreset(choice.label))]
  /\ NoUpdate /\ UNCHANGED <<host, clock>>

(* ------------------------------ applyPreset ---------------------------- *)
\* What the code takes the current workbench state to be.
Observed ==
  [ sidebar |-> [ position |-> getConfig(sideBarLocation, "left"),
                  visible |-> isSidebarVisible ],
    panel |-> [ position |-> getPanelPosition, visible |-> isPanelVisible ] ]

\* Mutant of Differs: the sidebar position is compared with the fallback.
DiffersFromFallback(k, P) ==
  CASE k = 1 -> P.sidebar.position # "left"
    [] k = 2 -> P.sidebar.visible # isSidebarVisible
    [] k = 3 -> P.panel.position # getPanelPosition
    [] k = 4 -> P.panel.visible # isPanelVisible

\* Mutant of Differs: the commands are issued without comparing.
DiffersAlways(k, P) == k \in 1..4

\* The four comparisons of applyPreset(P), in source order.
Differs(k, P) ==
  CASE k = 1 -> P.sidebar.position # getConfig(sideBarLocation, "left")
    [] k = 2 -> P.sidebar.visible # isSidebarVisible
    [] k = 3 -> P.panel.position # getPanelPosition
    [] k = 4 -> P.panel.visible # isPanelVisible

\* Mutant of Command: the branches for right and left are exchanged.
CommandLeftForRight(k, P) ==
  CASE k = 1 -> ToggleSidebarPosition
    [] k = 2 -> ToggleSidebarVisibility
    [] k = 3 -> (IF P.panel.position = "bottom" THEN PositionPanelBottom
                 ELSE IF P.panel.position = "right" THEN PositionPanelLeft
                 ELSE PositionPanelRight)
    [] k = 4 -> TogglePanel

\* The command each comparison issues when it differs.
Command(k, P) ==
  CASE k = 1 -> ToggleSidebarPosition
    [] k = 2 -> ToggleSidebarVisibility
    [] k = 3 -> (IF P.panel.position = "bottom" THEN PositionPanelBottom
                 ELSE IF P.panel.position = "right" THEN PositionPanelRight
                 ELSE PositionPanelLeft)
    [] k = 4 -> TogglePanel

\* The first comparison at or after `from` that differs; 5 if none does.
FirstDiffering(from, P) ==
  IF \E k \in from..4 : Differs(k, P)
  THEN CHOOSE k \in from..4 : Differs(k, P) /\ \A j \in from..(k - 1) : ~Differs(j, P)
  ELSE 5

Flip(position) == IF position = "left" THEN "right" ELSE "left"

\* The host runs a workbench command: the live workbench afterwards.  The
\* toggles flip, the three position commands place the panel.
UiAfter(cmd) ==
  CASE cmd = ToggleSidebarPosition -> [ui EXCEPT !.sidebar.position = Flip(@)]
    [] cmd = ToggleSidebarVisibility -> [ui EXCEPT !.sidebar.visible = ~@]
    [] cmd = PositionPanelBottom -> [ui EXCEPT !.panel.position = "bottom"]
    [] cmd = PositionPanelRight -> [ui EXCEPT !.panel.position = "right"]
    [] cmd = PositionPanelLeft -> [ui EXCEPT !.panel.position = "left"]
    [] cmd = TogglePanel -> [ui EXCEPT !.panel.visible = ~@]

\* vscode.commands.executeCommand(cmd).  The host keeps the sidebar's side in
\* workbench.sideBar.location; the panel-location settings are not its to write.
executeCommand(cmd) ==
  /\ ui' = UiAfter(cmd)
  /\ sideBarLocation' = IF cmd = ToggleSidebarPosition
                        THEN UiAfter(cmd).sidebar.position
                        ELSE sideBarLocation
  /\ UNCHANGED <<panelDefaultLocation, panelLocation>>

\* applyPreset(P) from comparison `from` on, up to its next await: the
\* comparisons that do not differ cost no suspension.  `self` is the slot's
\* record when the segment starts.
applyPreset(p, self, from) ==
  LET P == self.pick[1].preset
      k == FirstDiffering(from, P)
  IN  IF k = 5
      THEN /\ inv' = [inv EXCEPT ![p] = [self EXCEPT !.stage = 5, !.pc = "apply:return"]]
           /\ UNCHANGED host
      ELSE /\ executeCommand(Command(k, P))
           /\ inv' = [inv EXCEPT ![p] =
                [self EXCEPT !.stage = k + 1, !.pc = "apply:command",
                             !.cmds = Append(@, Command(k, P))]]

InvokeApply(p) == InvokeWithList(p, "applyPreset", ApplyItems(getPresets(store)))

\* showQuickPick resolves: !pick returns, else applyPreset(pick.preset) starts.
ApplyPick(p) ==
  /\ inv[p].op = "applyPreset" /\ inv[p].pc = "pick"
  /\ \E choice \in Picks(inv[p].items) :
       IF choice = NoPick
       THEN /\ inv' = [inv EXCEPT ![p] = Returned([inv[p] EXCEPT !.pick = <<choice>>], NoMessage)]
            /\ UNCHANGED host
       ELSE applyPreset(p, [inv[p] EXCEPT !.pick = <<choice>>,
                                          !.before = <<[live |-> ui, observed |-> Observed]>>], 1)
  /\ NoUpdate /\ UNCHANGED clock

\* An executeCommand resolved: applyPreset goes on with the next comparison.
ApplyResume(p) ==
  /\ inv[p].pc = "apply:command"
  /\ applyPreset(p, inv[p], inv[p].stage)
  /\ NoUpdate /\ UNCHANGED clock

\* Mutant of ApplyDone: the list is persisted again, as deletePreset does.
ApplyDoneAndUpdate(p) ==
  /\ inv[p].pc = "apply:return"
  /\ inv' = [inv EXCEPT ![p] = Returned(inv[p], MsgApplied(inv[p].pick[1].label))]
  /\ Update(inv[p].list) /\ UNCHANGED <<host, clock>>

\* applyPreset's promise resolved: the confirmation.
ApplyDone(p) ==
  /\ inv[p].pc = "apply:return"
  /\ inv' = [inv EXCEPT ![p] = Returned(inv[p], MsgApplied(inv[p].pick[1].label))]
  /\ NoUpdate /\ UNCHANGED <<host, clock>>

(* ------------------------------ deletePreset --------------------------- *)
InvokeDelete(p) == InvokeWithList(p, "deletePreset", DeleteItems(getPresets(store)))

\* Mutant of DeletePick: no return on !pick, and list.splice(pick?.idx, 1),
\* which removes the first element when the index is undefined.
DeletePickUnguarded(p) ==
  /\ inv[p].op = "deletePreset" /\ inv[p].pc = "pick"
  /\ \E choice \in Picks(inv[p].items) :
       LET l == Splice1(inv[p].list, IF choice = NoPick THEN 0 ELSE choice.idx)
       IN  /\ Update(l)
           /\ inv' = [inv EXCEPT ![p].pick = <<choice>>, ![p].list = l,
                                 ![p].pc = "delete:update"]
  /\ UNCHANGED <<host, clock>>

\* Mutant of DeletePick: the list is loaded again when the picker resolves.
DeletePickReloading(p) ==
  /\ inv[p].op = "deletePreset" /\ inv[p].pc = "pick"
  /\ \E choice \in Picks(inv[p].items) :
       IF choice = NoPick
       THEN /\ inv' = [inv EXCEPT ![p] = Returned([inv[p] EXCEPT !.pick = <<choice>>], NoMessage)]
            /\ NoUpdate
       ELSE LET l == Splice1(getPresets(store), choice.idx)
            IN  /\ Update(l)
                /\ inv' = [inv EXCEPT ![p].pick = <<choice>>, ![p].list = l,
                                      ![p].pc = "delete:update"]
  /\ UNCHANGED <<host, clock>>

\* showQuickPick resolves: !pick returns, else list.splice(pick.idx, 1) and
\* globalState.update, up to await update.
DeletePick(p) ==
  /\ inv[p].op = "deletePreset" /\ inv[p].pc = "pick"
  /\ \E choice \in Picks(inv[p].items) :
       IF choice = NoPick
       THEN /\ inv' = [inv EXCEPT ![p] = Returned([inv[p] EXCEPT !.pick = <<choice>>], NoMessage)]
            /\ NoUpdate
       ELSE LET l == Splice1(inv[p].list, choice.idx)
            IN  /\ Update(l)
                /\ inv' = [inv EXCEPT ![p].pick = <<choice>>, ![p].list = l,
                                      ![p].pc = "delete:update"]
  /\ UNCHANGED <<host, clock>>

\* update resolved: the confirmation.
DeleteDone(p) ==
  /\ inv[p].pc = "delete:update"
  /\ inv' = [inv EXCEPT ![p] = Returned(inv[p], MsgDeleted(inv[p].pick[1].label))]
  /\ NoUpdate /\ UNCHANGED <<host, clock>>

(* --------------------------- specifications ---------------------------- *)
\* Presets the store may hold when the extension is activated: globalState
\* outlives the session, and a stored preset's visible flags may be false
\* (applyPreset compares them; captureCurrentLayout never produces them).
SeedPresets(layouts) == {LayoutPreset("A", 0, l) : l \in layouts}
SeedStores(layouts) ==
  {NoValue, Stored(<<>>)} \cup {Stored(<<s>>) : s \in SeedPresets(layouts)}

\* Two stored layouts: everything visible, and everything hidden.
SomeLayouts ==
  {[sidebar |-> [position |-> "left", visible |-> v],
    panel |-> [position |-> "bottom", visible |-> v]] : v \in BOOLEAN}

SettingValues == {Undefined, "", "bottom", "left", "right", "top"}

\* The host's state: settings from the given sets, a live workbench among the
\* given layouts.  The sidebar is where its setting says, the rest is free.
InitHost(sidebarSettings, panelSettings, layouts) ==
  /\ sideBarLocation \in sidebarSettings
  /\ \E s \in panelSettings : panelDefaultLocation = s[1] /\ panelLocation = s[2]
  /\ ui \in {l \in layouts : l.sidebar.position = getConfig(sideBarLocation, "left")}

Init ==
  /\ store \in SeedStores(SomeLayouts)
  /\ InitHost({Undefined, "right"},
              {<<Undefined, Undefined>>, <<"right", Undefined>>},
              {l \in Layouts : /\ l.sidebar.visible = l.panel.visible
                               /\ l.panel.position # "left"})
  /\ clock = 0
  /\ written = FALSE
  /\ inv = [p \in Procs |-> Idle]

\* The steps of the commands that read the stored list and may replace it.
StoreStep(p) ==
  \/ InvokeSave(p) \/ SaveName(p) \/ SavePush(p) \/ SaveDone(p)
  \/ InvokeList(p) \/ ListPick(p)
  \/ InvokeDelete(p) \/ DeletePick(p) \/ DeleteDone(p)

Step(p) ==
  \/ StoreStep(p)
  \/ InvokeApply(p) \/ ApplyPick(p) \/ ApplyResume(p) \/ ApplyDone(p)

\* One command at a time: a handler returns before the next is triggered.
Next == Step(1)
Spec == Init /\ [][Next]_vars

\* applyPreset alone, from every stored preset, setting and live workbench.
InitApply ==
  /\ store \in {Stored(<<s>>) : s \in SeedPresets(Layouts)}
  /\ InitHost({Undefined, "left", "right"}, SettingValues \X SettingValues, Layouts)
  /\ clock = 0
  /\ written = FALSE
  /\ inv = [p \in Procs |-> Idle]
NextApply == InvokeApply(1) \/ ApplyPick(1) \/ ApplyResume(1) \/ ApplyDone(1)
SpecApply == InitApply /\ [][NextApply]_vars

\* Commands triggered while others wait on their prompts, from a host with
\* nothing configured and a store that is absent or holds one preset, which
\* differs from the workbench in the panel's visibility.  Save, list and delete
\* run in every slot; applyPreset, which reads the list once and never writes
\* it, runs in the first.
InitOverlap ==
  /\ store \in {NoValue,
                Stored(<<LayoutPreset("A", 0,
                    [sidebar |-> [position |-> "left", visible |-> TRUE],
                     panel |-> [position |-> "bottom", visible |-> FALSE]])>>)}
  /\ sideBarLocation = Undefined
  /\ panelDefaultLocation = Undefined
  /\ panelLocation = Undefined
  /\ ui = [sidebar |-> [position |-> "left", visible |-> TRUE],
           panel |-> [position |-> "bottom", visible |-> TRUE]]
  /\ clock = 0
  /\ written = FALSE
  /\ inv = [p \in Procs |-> Idle]
NextOverlap == (\E p \in Procs : StoreStep(p)) \/ NextApply
SpecOverlap == InitOverlap /\ [][NextOverlap]_vars

\* One command at a time from a store nothing was written to yet, under every
\* setting.  Every preset is then a capture of settings that only
\* applyPreset's own commands change, so applyPreset finds no field to differ
\* and never awaits a command.
InitFresh ==
  /\ store \in {NoValue, Stored(<<>>)}
  /\ InitHost({Undefined, "left", "right"}, SettingValues \X SettingValues,
              {l \in Layouts : /\ l.sidebar.visible = l.panel.visible
                               /\ l.panel.position = "bottom"})
  /\ clock = 0
  /\ written = FALSE
  /\ inv = [p \in Procs |-> Idle]
NextFresh == StoreStep(1) \/ InvokeApply(1) \/ ApplyPick(1) \/ ApplyDone(1)
SpecFresh == InitFresh /\ [][NextFresh]_vars

TypeOK ==
  /\ store.present \in BOOLEAN
  /\ Len(getPresets(store)) <= MaxPresets
  /\ ui \in Layouts
  /\ ui.sidebar.position = getConfig(sideBarLocation, "left")
  /\ clock \in 0..MaxClock
  /\ written \in BOOLEAN

(* ------------------------------- claims -------------------------------- *)
\* The persisted list, its names and picker labels in order, and the number
\* of its entries with a given name.
Persisted == getPresets(store)
AfterPersisted == getPresets(store')
NamesOf(l) == [i \in 1..Len(l) |-> l[i].name]
LabelsOf(items) == [i \in 1..Len(items) |-> items[i].label]
Count(l, n) == Cardinality({i \in 1..Len(l) : l[i].name = n})
\* Slot p takes this step.
StepOf(p) == inv'[p] # inv[p]

\* C1: when savePreset's name prompt resolves to undefined or to the empty
\* string, the handler returns with the persisted list as it was: nothing is
\* captured (no preset, Date.now() not read), nothing is written, and the
\* only thing it does is to show "Preset save cancelled.".  Triggering the
\* command changes nothing either.
C1_DeclinedNameLeavesList ==
  [][\A p \in Procs :
       /\ (~Active(p) /\ inv'[p].pc = "save:name") =>
            /\ store' = store /\ ~written' /\ clock' = clock /\ host' = host
            /\ inv'[p].preset = <<>>
       /\ (inv[p].pc = "save:name" /\ StepOf(p) /\ inv'[p].name \in {Undefined, ""}) =>
            /\ store' = store /\ ~written' /\ clock' = clock /\ host' = host
            /\ inv'[p] = [Idle EXCEPT !.op = "savePreset", !.name = inv'[p].name,
                                      !.msg = MsgCancelled]
  ]_vars

\* C1 witness: a save was cancelled with the empty string over a list that
\* holds presets.
C1_Witness ==
  \E p \in Procs :
    /\ inv[p].op = "savePreset" /\ ~Active(p)
    /\ inv[p].name = "" /\ inv[p].msg = MsgCancelled
    /\ Len(Persisted) > 0

\* C2: the persisted list keeps insertion order.  The write of a savePreset
\* leaves every entry that was there at its place and puts the entry with the
\* name just given after them; listPresets writes nothing and shows one item per
\* entry, labelled with the entries' names in the list's order.
C2_InsertionOrder ==
  [][\A p \in Procs :
       /\ (inv[p].pc = "save:capture" /\ StepOf(p)) =>
            /\ Len(AfterPersisted) = Len(Persisted) + 1
            /\ SubSeq(AfterPersisted, 1, Len(Persisted)) = Persisted
            /\ AfterPersisted[Len(AfterPersisted)].name = inv[p].name
       /\ (StepOf(p) /\ inv'[p].op = "listPresets") => (store' = store /\ ~written')
       /\ (~Active(p) /\ inv'[p].op = "listPresets" /\ inv'[p].pc = "pick") =>
            LabelsOf(inv'[p].items) = NamesOf(Persisted)
  ]_vars

\* C2 witness: listPresets shows B, A, B: three saves, in that order.
C2_Witness ==
  \E p \in Procs :
    /\ inv[p].op = "listPresets" /\ inv[p].pc = "pick"
    /\ LabelsOf(inv[p].items) = <<"B", "A", "B">>

\* C3: a savePreset given a non-empty name N goes on to capture a preset named
\* N, and its write makes the list one longer with one more entry named N and
\* as many entries of every other name as before, whether or not N was there.
C3_SaveAddsOneEntry ==
  [][\A p \in Procs :
       /\ (inv[p].pc = "save:name" /\ StepOf(p) /\ inv'[p].name \in Names) =>
            /\ inv'[p].pc = "save:capture"
            /\ Len(inv'[p].preset) = 1 /\ inv'[p].preset[1].name = inv'[p].name
       /\ (inv[p].pc = "save:capture" /\ StepOf(p)) =>
            /\ inv'[p].pc = "save:update" /\ written'
            /\ Len(AfterPersisted) = Len(Persisted) + 1
            /\ \A n \in Names :
                 Count(AfterPersisted, n) =
                   Count(Persisted, n) + (IF n = inv[p].name THEN 1 ELSE 0)
  ]_vars

\* C3 witness: a save has just written a name the list already held.
C3_Witness ==
  \E p \in Procs :
    /\ inv[p].pc = "save:update"
    /\ Count(Persisted, inv[p].name) >= 2

\* C4: with one command at a time, a deletePreset whose picker resolves to the
\* item at 0-based index i persists the list it found without its element i:
\* the elements before it and those after it, in their order.  The picked
\* item is the one built from that element.
C4_DeleteRemovesByPosition ==
  [][\A p \in Procs :
       (inv[p].op = "deletePreset" /\ inv[p].pc = "pick" /\ StepOf(p)
          /\ inv'[p].pick # <<NoPick>>) =>
         LET i == inv'[p].pick[1].idx
         IN  /\ inv'[p].pc = "delete:update" /\ written'
             /\ i \in 0..(Len(Persisted) - 1)
             /\ inv'[p].pick[1].label = Persisted[i + 1].name
             /\ store'.present
             /\ AfterPersisted =
                  SubSeq(Persisted, 1, i) \o SubSeq(Persisted, i + 2, Len(Persisted))
  ]_vars

\* C4 witness: of three presets the first two share a name; the second was
\* picked and deleted.
C4_Witness ==
  \E p \in Procs :
    /\ inv[p].pc = "delete:update"
    /\ Len(inv[p].items) = 3
    /\ inv[p].items[1].label = inv[p].items[2].label
    /\ inv[p].pick[1].idx = 1
    /\ Len(Persisted) = 2

\* C5: deleting the only preset persists the empty list; and listPresets,
\* applyPreset or deletePreset triggered while the list is empty shows "No
\* layout presets saved." and returns: no picker, no command, no write.
C5_EmptyAfterLastDelete ==
  [][\A p \in Procs :
       /\ (inv[p].op = "deletePreset" /\ inv[p].pc = "pick" /\ StepOf(p)
             /\ inv'[p].pick # <<NoPick>> /\ Len(Persisted) = 1) =>
            (store'.present /\ AfterPersisted = <<>>)
       /\ (~Active(p) /\ StepOf(p) /\ Len(Persisted) = 0
             /\ inv'[p].op \in {"listPresets", "applyPreset", "deletePreset"}) =>
            /\ inv'[p] = [Idle EXCEPT !.op = inv'[p].op, !.msg = MsgNone]
            /\ store' = store /\ ~written' /\ host' = host
  ]_vars

\* C5 witness: a preset was saved (Date.now() was read), the list is empty
\* again, and applyPreset reported that nothing is saved.
C5_Witness ==
  \E p \in Procs :
    /\ clock > 0 /\ store = Stored(<<>>)
    /\ inv[p].op = "applyPreset" /\ ~Active(p) /\ inv[p].msg = MsgNone

\* Slot p's picker resolves to an item in this step, and applyPreset starts.
ApplyStarts(p) ==
  /\ inv[p].op = "applyPreset" /\ inv[p].pc = "pick" /\ StepOf(p)
  /\ inv'[p].pick # <<NoPick>>
\* applyPreset(P) has made its four comparisons in slot p.
Applied(p) == inv[p].pc = "apply:return"
Target(p) == inv[p].pick[1].preset
\* The commands of the given set that slot p issued, in order.
Issued(p, set) == SelectSeq(inv[p].cmds, LAMBDA c : c \in set)
\* The live workbench is what the code takes it to be: both regions shown,
\* the panel where the panel-location settings say.  (The sidebar is where
\* its setting says in every state.)
AsObserved(live, panelPosNow) ==
  /\ live.sidebar.visible /\ live.panel.visible
  /\ live.panel.position = panelPosNow

\* C6 as stated: applyPreset(P) started when the live workbench equals P in
\* all four fields issues no command.
C6_Original ==
  [][\A p \in Procs :
       (ApplyStarts(p) /\ LayoutOf(inv'[p].pick[1].preset) = ui) =>
         (inv'[p].cmds = <<>> /\ inv'[p].pc = "apply:return" /\ host' = host)
  ]_vars

\* C6 amended: applyPreset(P) started when the live workbench equals P in all
\* four fields, and is what the code takes it to be (both regions shown, the
\* panel where the panel-location settings say), issues no command: it makes
\* its four comparisons in one segment and leaves the host as it is.
C6_MatchingObservedStateNoCommand ==
  [][\A p \in Procs :
       (ApplyStarts(p) /\ LayoutOf(inv'[p].pick[1].preset) = ui
          /\ AsObserved(ui, PanelPositionOf(panelDefaultLocation, panelLocation))) =>
         (inv'[p].cmds = <<>> /\ inv'[p].pc = "apply:return" /\ host' = host)
  ]_vars

\* C6 witness: a preset with the sidebar and the panel on the right was
\* applied to a workbench that matched it, and nothing was issued.
C6_Witness ==
  \E p \in Procs :
    /\ Applied(p) /\ inv[p].cmds = <<>>
    /\ inv[p].before[1].live = LayoutOf(Target(p))
    /\ ui = LayoutOf(Target(p))
    /\ ui.sidebar.position = "right" /\ ui.panel.position = "right"

\* C7 as stated: when applyPreset(P) has made its comparisons, the live
\* workbench equals P in all four fields.
C7_Original == \A p \in Procs : Applied(p) => ui = LayoutOf(Target(p))

\* C7 amended: when applyPreset(P), run with no other command in flight, has
\* made its comparisons, the live workbench equals P in all four fields,
\* provided that when it started the live workbench was what the code takes it
\* to be: both regions shown, the panel where the panel-location settings say.
C7_AppliedMatchesFromObservedState ==
  \A p \in Procs :
    (Applied(p) /\ AsObserved(inv[p].before[1].live,
                              inv[p].before[1].observed.panel.position)) =>
      ui = LayoutOf(Target(p))

\* C7 witness: all four fields differed, four commands were issued, and the
\* workbench now equals the preset.
C7_Witness ==
  \E p \in Procs :
    /\ Applied(p) /\ Len(inv[p].cmds) = 4
    /\ AsObserved(inv[p].before[1].live, inv[p].before[1].observed.panel.position)
    /\ ui = LayoutOf(Target(p))

C9_ListApplyDoNotWrite ==
  [][\A p \in Procs :
       (StepOf(p) /\ inv'[p].op \in {"listPresets", "applyPreset"}) =>
         (store' = store /\ ~written')
  ]_vars

\* C9 witness: applyPreset has issued commands for a picked preset, and the
\* store holds the list it loaded.
C9_Witness ==
  \E p \in Procs :
    /\ Applied(p) /\ Len(inv[p].cmds) > 0
    /\ store = Stored(inv[p].list)

\* C10: when the picker of listPresets, applyPreset or deletePreset resolves
\* to undefined, the handler returns in that step: nothing is written, the
\* host is as it was (no command), no notification is shown.
C10_DismissedPickerAborts ==
  [][\A p \in Procs :
       (inv[p].pc = "pick" /\ StepOf(p) /\ inv'[p].pick = <<NoPick>>) =>
         /\ inv'[p] = [Idle EXCEPT !.op = inv[p].op, !.pick = <<NoPick>>]
         /\ store' = store /\ ~written' /\ host' = host /\ clock' = clock
  ]_vars

\* C10 witness: deletePreset's picker was dismissed over a list of two.
C10_Witness ==
  \E p \in Procs :
    /\ inv[p].op = "deletePreset" /\ ~Active(p) /\ inv[p].pick = <<NoPick>>
    /\ Len(Persisted) = 2

\* The number of entries of l equal to e in every field, and every preset
\* that is in the persisted list before or after the step.
Occ(l, e) == Cardinality({i \in 1..Len(l) : l[i] = e})
EntriesAround ==
  {Persisted[i] : i \in 1..Len(Persisted)} \cup
  {AfterPersisted[i] : i \in 1..Len(AfterPersisted)}
\* Slot p's savePreset writes in this step; slot p's deletePreset does, its
\* picker having resolved to an item.
SaveWrites(p) == inv[p].pc = "save:capture" /\ StepOf(p)
DeleteWrites(p) ==
  /\ inv[p].op = "deletePreset" /\ inv[p].pc = "pick" /\ StepOf(p)
  /\ inv'[p].pick # <<NoPick>>
\* The entry of the list deletePreset loaded that the picked item stands for.
Selected(p) == inv[p].list[inv'[p].pick[1].idx + 1]

\* C11 as stated: also when prompts overlap, an entry is added to the persisted
\* list only by a savePreset writing the preset it captured, and an entry is
\* taken from it only by a deletePreset whose picked item stands for it.
C11_Original ==
  [][\A e \in EntriesAround :
       /\ Occ(AfterPersisted, e) > Occ(Persisted, e) =>
            \E p \in Procs : SaveWrites(p) /\ inv[p].preset[1] = e
       /\ Occ(AfterPersisted, e) < Occ(Persisted, e) =>
            \E p \in Procs : DeleteWrites(p) /\ Selected(p) = e
  ]_vars

\* C11 amended: also when prompts overlap, the stored value is written only by
\* savePreset and by deletePreset after a pick.  savePreset's write keeps every
\* entry persisted at that moment and adds the preset it captured.
\* deletePreset's write persists the list it loaded without the selected entry:
\* when nothing was written since it loaded, exactly the selected entry leaves
\* and nothing enters.
C11_WritesAreSaveOrDelete ==
  [][/\ (store' # store \/ written') =>
          \E p \in Procs : SaveWrites(p) \/ DeleteWrites(p)
     /\ \A p \in Procs :
          /\ SaveWrites(p) => AfterPersisted = Append(Persisted, inv[p].preset[1])
          /\ DeleteWrites(p) =>
               LET i == inv'[p].pick[1].idx
               IN  /\ AfterPersisted = SubSeq(inv[p].list, 1, i) \o
                                       SubSeq(inv[p].list, i + 2, Len(inv[p].list))
                   /\ inv[p].list = Persisted =>
                        \A e \in EntriesAround :
                          Occ(AfterPersisted, e) =
                            Occ(Persisted, e) - (IF e = Selected(p) THEN 1 ELSE 0)
  ]_vars

\* C11 witness: a deletePreset and a savePreset overlapped and both have
\* written; the store holds what the later of the two wrote.
C11_Witness ==
  \E p, q \in Procs :
    /\ inv[p].pc = "delete:update" /\ inv[q].pc = "save:update"
    /\ store \in {Stored(inv[p].list), Stored(inv[q].list)}
    /\ Len(Persisted) > 0

\* Slot q's savePreset has written the list: it awaits the end of the update,
\* or has shown its confirmation.
HasSaved(q) ==
  /\ inv[q].op = "savePreset"
  /\ inv[q].pc = "save:update" \/ inv[q].msg = MsgSaved(inv[q].name)

\* C13: when a deletePreset that loaded the list is resumed by a pick after a
\* savePreset in another slot has added its preset to that same list, the
\* delete persists the list it loaded without the selected entry: the store is
\* two entries shorter than the save left it, and holds the preset just saved
\* fewer times than before, not at all unless the loaded list held an equal one.
C13_DeleteLosesOverlappingSave ==
  [][\A p, q \in Procs :
       LET snapshot == inv[p].list
           saved == Persisted[Len(Persisted)]
       IN  (/\ DeleteWrites(p) /\ q # p /\ HasSaved(q)
            /\ Len(Persisted) = Len(snapshot) + 1
            /\ SubSeq(Persisted, 1, Len(snapshot)) = snapshot
            /\ saved.name = inv[q].name) =>
             /\ AfterPersisted = Splice1(snapshot, inv'[p].pick[1].idx)
             /\ Len(AfterPersisted) = Len(Persisted) - 2
             /\ Occ(AfterPersisted, saved) < Occ(Persisted, saved)
             /\ Occ(snapshot, saved) = 0 => Occ(AfterPersisted, saved) = 0
  ]_vars

\* C13 witness: a savePreset wrote a name the list did not hold and awaits the
\* end of its update; a deletePreset that had loaded the list before that write
\* (its items lack the name) wrote after it: the name is not in the store.
C13_Witness ==
  \E p, q \in Procs :
    /\ inv[p].pc = "delete:update" /\ inv[q].pc = "save:update"
    /\ \A i \in 1..Len(inv[p].items) : inv[p].items[i].label # inv[q].name
    /\ written /\ store = Stored(inv[p].list)
    /\ Count(Persisted, inv[q].name) = 0
    /\ Count(inv[q].list, inv[q].name) = 1

\* C14: starting from a store nothing was written to, every preset a
\* savePreset holds after capture and every preset in the persisted list has
\* sidebar.visible = true and panel.visible = true, whatever the live
\* workbench shows.
C14_CapturedVisible ==
  /\ \A i \in 1..Len(Persisted) :
       Persisted[i].sidebar.visible /\ Persisted[i].panel.visible
  /\ \A p \in Procs : \A i \in 1..Len(inv[p].preset) :
       inv[p].preset[i].sidebar.visible /\ inv[p].preset[i].panel.visible

\* C14 witness: with the live sidebar and panel hidden, two presets were
\* captured and persisted, and one was deleted.
C14_Witness ==
  \E p \in Procs :
    /\ ~ui.sidebar.visible /\ ~ui.panel.visible
    /\ inv[p].pc = "delete:update" /\ Len(inv[p].items) = 2
    /\ Len(Persisted) = 1 /\ Persisted[1].sidebar.visible /\ Persisted[1].panel.visible

\* C15: when applyPreset(P) has made its comparisons it has issued
\* toggleSidebarVisibility once if P.sidebar.visible is false and not at all
\* if it is true, and togglePanel once if P.panel.visible is false and not at
\* all if it is true, whether the live sidebar and panel were shown or hidden.
C15_ToggleIffFlagFalse ==
  \A p \in Procs :
    Applied(p) =>
      /\ Issued(p, {ToggleSidebarVisibility}) =
           IF Target(p).sidebar.visible THEN <<>> ELSE <<ToggleSidebarVisibility>>
      /\ Issued(p, {TogglePanel}) =
           IF Target(p).panel.visible THEN <<>> ELSE <<TogglePanel>>

\* C15 witness: the live sidebar and panel were both hidden; the preset's
\* sidebar flag is false and its panel flag true.  The sidebar was toggled,
\* and is now shown; the panel was not, and is still hidden.
C15_Witness ==
  \E p \in Procs :
    /\ Applied(p)
    /\ ~inv[p].before[1].live.sidebar.visible /\ ~inv[p].before[1].live.panel.visible
    /\ ~Target(p).sidebar.visible /\ Target(p).panel.visible
    /\ Issued(p, {ToggleSidebarVisibility, TogglePanel}) = <<ToggleSidebarVisibility>>
    /\ ui.sidebar.visible /\ ~ui.panel.visible

\* The move-panel command named by a panel position.
MoveTo(position) ==
  CASE position = "bottom" -> PositionPanelBottom
    [] position = "left" -> PositionPanelLeft
    [] position = "right" -> PositionPanelRight
\* One command for each field in which P differs from obs, in the order
\* sidebar position, sidebar visibility, panel position, panel visibility.
OneForEachDifference(P, obs) ==
  (IF P.sidebar.position # obs.sidebar.position THEN <<ToggleSidebarPosition>> ELSE <<>>) \o
  (IF P.sidebar.visible # obs.sidebar.visible THEN <<ToggleSidebarVisibility>> ELSE <<>>) \o
  (IF P.panel.position # obs.panel.position THEN <<MoveTo(P.panel.position)>> ELSE <<>>) \o
  (IF P.panel.visible # obs.panel.visible THEN <<TogglePanel>> ELSE <<>>)
IsPrefix(a, b) == Len(a) <= Len(b) /\ SubSeq(b, 1, Len(a)) = a

\* C16: the commands applyPreset(P) has issued so far are, at each of its
\* awaits, the first ones of the sequence that has one command for each field
\* in which P differs from the state observed when it started, in the order
\* sidebar position, sidebar visibility, panel position, panel visibility, with
\* the move-panel command named by P.panel.position; when it has made its
\* comparisons they are that whole sequence, at most four commands.
C16_OneCommandPerDifferingField ==
  \A p \in Procs :
    (inv[p].pc \in {"apply:command", "apply:return"}) =>
      LET expected == OneForEachDifference(Target(p), inv[p].before[1].observed)
      IN  /\ IsPrefix(inv[p].cmds, expected)
          /\ inv[p].pc = "apply:command" => inv[p].cmds # <<>>
          /\ Applied(p) => (inv[p].cmds = expected /\ Len(inv[p].cmds) <= 4)

\* C16 witness: all four fields differed; the four commands were issued in
\* order, the panel one being positionPanelLeft.
C16_Witness ==
  \E p \in Procs :
    /\ Applied(p)
    /\ inv[p].cmds = <<ToggleSidebarPosition, ToggleSidebarVisibility,
                       PositionPanelLeft, TogglePanel>>

\* Slot p's savePreset captures in this step.
Captures(p) == inv[p].pc = "save:name" /\ StepOf(p) /\ inv'[p].pc = "save:capture"
Sides == {"left", "right"}

\* C17 as stated: capture records the sidebar-location setting, left if it is
\* absent; it records a panel position of left or right when either
\* panel-location key holds that value, and of bottom only if neither key
\* holds left or right.
C17_Original ==
  [][\A p \in Procs :
       Captures(p) =>
         LET c == inv'[p].preset[1]
         IN  /\ c.sidebar.position =
                  (IF sideBarLocation = Undefined THEN "left" ELSE sideBarLocation)
             /\ (panelDefaultLocation \in Sides \/ panelLocation \in Sides) =>
                  c.panel.position \in {panelDefaultLocation, panelLocation} \cap Sides
             /\ c.panel.position = "bottom" =>
                  (panelDefaultLocation \notin Sides /\ panelLocation \notin Sides)
  ]_vars

\* C17 amended: capture records the sidebar-location setting, left if it is
\* absent, and takes the panel position from one key: from
\* workbench.panel.defaultLocation if that is set to a non-empty value, from
\* workbench.panel.location otherwise.  It records left or right when that
\* key holds that value and bottom in every other case, whatever the other
\* key holds.
C17_CaptureReadsFirstSetKey ==
  [][\A p \in Procs :
       Captures(p) =>
         LET c == inv'[p].preset[1]
             key == IF panelDefaultLocation \notin {Undefined, ""}
                    THEN panelDefaultLocation ELSE panelLocation
         IN  /\ c.sidebar.position =
                  (IF sideBarLocation = Undefined THEN "left" ELSE sideBarLocation)
             /\ c.panel.position = (IF key \in Sides THEN key ELSE "bottom")
  ]_vars

\* C17 witness: with the sidebar set to the right, defaultLocation set to
\* bottom and location to right, a capture recorded the sidebar right and the
\* panel at the bottom.
C17_Witness ==
  \E p \in Procs :
    /\ inv[p].pc = "save:capture"
    /\ sideBarLocation = "right"
    /\ panelDefaultLocation = "bottom" /\ panelLocation = "right"
    /\ inv[p].preset[1].sidebar.position = "right"
    /\ inv[p].preset[1].panel.position = "bottom"

\* C18: a savePreset holds no list while it waits for its name prompt or for
\* the capture; its write keeps every entry persisted at that moment and adds
\* its own.  So when another savePreset has written and the store still holds
\* what it wrote, this write persists that list with the new preset after it:
\* both new presets are in the store.
C18_OverlappingSavesKeepBoth ==
  [][\A p \in Procs :
       /\ inv'[p].pc \in {"save:name", "save:capture"} => inv'[p].list = <<>>
       /\ SaveWrites(p) =>
            /\ \A e \in EntriesAround :
                 Occ(AfterPersisted, e) =
                   Occ(Persisted, e) + (IF e = inv[p].preset[1] THEN 1 ELSE 0)
            /\ \A q \in Procs \ {p} :
                 (inv[q].pc = "save:update" /\ store = Stored(inv[q].list)) =>
                   /\ AfterPersisted = inv[q].list \o <<inv[p].preset[1]>>
                   /\ AfterPersisted[Len(AfterPersisted) - 1].name = inv[q].name
                   /\ AfterPersisted[Len(AfterPersisted)].name = inv[p].name
  ]_vars

\* C18 witness: two savePresets ran side by side from a store never written.
\* One was given its name first (its preset is stamped earlier) and wrote
\* last; the store holds the other's preset and then its own.
C18_Witness ==
  \E p, q \in Procs :
    /\ p # q /\ inv[p].pc = "save:update" /\ inv[q].pc = "save:update"
    /\ inv[p].name # inv[q].name
    /\ Len(Persisted) = 2 /\ store = Stored(inv[p].list)
    /\ Persisted[1].name = inv[q].name /\ Persisted[2].name = inv[p].name
    /\ Persisted[2].timestamp < Persisted[1].timestamp

\* Two presets agree in each of the four fields.
SameFields(a, b) ==
  /\ a.name = b.name /\ a.timestamp = b.timestamp
  /\ a.sidebar = b.sidebar /\ a.panel = b.panel

\* C12: with one command at a time, every step leaves each entry that stays in
\* the persisted list with the name, timestamp, sidebar and panel it had.  A
\* save's write keeps the entries at their places and adds the preset as it was
\* captured; a delete's write keeps the entries other than the selected one;
\* every other step of save, list, apply and delete leaves the stored value as
\* it is, also when applyPreset changes the settings capture reads.
C12_EntriesKeepTheirFields ==
  [][\A p \in Procs :
       StepOf(p) =>
         IF SaveWrites(p)
         THEN /\ Len(AfterPersisted) = Len(Persisted) + 1
              /\ \A i \in 1..Len(Persisted) : SameFields(AfterPersisted[i], Persisted[i])
              /\ SameFields(AfterPersisted[Len(AfterPersisted)], inv[p].preset[1])
         ELSE IF DeleteWrites(p)
         THEN /\ Len(AfterPersisted) = Len(Persisted) - 1
              /\ \A j \in 1..Len(AfterPersisted) :
                   SameFields(AfterPersisted[j],
                              Persisted[IF j <= inv'[p].pick[1].idx THEN j ELSE j + 1])
         ELSE store' = store
  ]_vars

\* C12 witness: after a save and an applyPreset that moved the sidebar, the
\* list holds the hidden preset it started with, stamped 0, and the captured
\* one, stamped later, with the sidebar where it was at capture.
C12_Witness ==
  \E p \in Procs :
    /\ inv[p].op = "applyPreset" /\ ~Active(p) /\ inv[p].msg # NoMessage
    /\ Len(Persisted) = 2
    /\ Persisted[1].timestamp = 0 /\ ~Persisted[1].sidebar.visible
    /\ Persisted[2].timestamp > 0 /\ Persisted[2].sidebar.visible
    /\ Persisted[2].sidebar.position # getConfig(sideBarLocation, "left")
====
